---- MODULE Spec2Model ----
(***************************************************************************)
(* Model of websocket_client.py: the punctuation client TextHttpHandler    *)
(* and the streaming ASR client ASRWsAudioHandler (read_wave, run,         *)
(* run_online).  One behaviour is one handler object, constructed with     *)
(* some endpoint configuration, on which one of the public methods is      *)
(* called once.  An action is the code between two suspension points       *)
(* (await ws.send / await ws.recv / connect) or blocking calls.            *)
(***************************************************************************)
EXTENDS Integers, Sequences, FiniteSets, TLC

\* ---------------------------------------------------------------- bounds
\* longest sample buffer of a wave file
MaxLen == 3
\* largest chunk length (the model's scaled stand-in for the 1360 samples)
MaxChunk == 2
\* number of frames the live session captures before the model stops it
MaxOnline == 2

\* ------------------------------------------------------ program constants
\* read_wave: assert sample_rate == 16000
RequiredRate == 16000
\* read_wave: 85 ms per chunk
ChunkMs == 85

None == "None"

\* sample values of the model's wave files (int16 in the program)
SampleVals == {0, 1}
\* sample rates a wave file may carry
SampleRates == {16000, 8000}

\* ------------------------------------------------------------ JSON values
\* the value of a JSON object's "result" member, or its absence
Missing == [t |-> "missing", v |-> ""]
JNull == [t |-> "null", v |-> ""]
JStr(s) == [t |-> "str", v |-> s]

\* transcripts the recognition server may put in "result"
Texts == {"", "hello world"}
\* texts the punctuation backend may put in result.punc_text
PuncTexts == {"Hello, world."}

JsonResults == {Missing, JNull} \cup {JStr(s) : s \in Texts}

\* a message on the wire from the server: text that is not JSON, JSON that
\* is not an object, or a JSON object (with or without "result")
WireMsgs ==
    {[json |-> "invalid", result |-> Missing],
     [json |-> "scalar", result |-> Missing]}
    \cup {[json |-> "object", result |-> r] : r \in JsonResults}

\* Python values held by msg / returned by run
PyUnset == [ty |-> "unset", result |-> Missing]
\* an acknowledgement that is parsed into an object with an empty result
AckParsed == [ty |-> "dict", result |-> [t |-> "str", v |-> ""]]
PyText == [ty |-> "text", result |-> Missing]
PyStr(x) == [ty |-> "str", result |-> x]
PyScalar == [ty |-> "scalar", result |-> Missing]
PyDict(r) == [ty |-> "dict", result |-> r]
\* return ""
PyEmptyStr == PyStr(JStr(""))

\* the server's message is a RecognitionResult: an object with a string
\* "result"
IsResult(w) == w.json = "object" /\ w.result.t = "str"

\* a parser that lets text that is not JSON through
JsonLoadsLenient(w) == "none"

\* json.loads(msg): the exception it raises ("none" when it returns) ...
JsonLoadsExc(w) == IF w.json = "invalid" THEN "JSONDecodeError" ELSE "none"
\* ... and the value it returns
JsonLoads(w) == IF w.json = "object" THEN PyDict(w.result) ELSE PyScalar

\* a lookup of a key the server's results do not carry
SubscriptExcWrongKey(m) == IF m.ty # "dict" THEN "TypeError" ELSE "KeyError"

\* msg['result']: the exception the subscript raises ("none" when it yields)
SubscriptExc(m) ==
    IF m.ty # "dict" THEN "TypeError"
    ELSE IF m.result = Missing THEN "KeyError"
    ELSE "none"

\* len(x) for a JSON value x: TypeError on null
LenExc(x) == IF x.t = "str" THEN "none" ELSE "TypeError"
\* a length test that lets the empty transcript through (>= 0 for > 0)
PyLenPlusOne(x) == Len(x.v) + 1
PyLen(x) == Len(x.v)

\* ------------------------------------------------------- TextHttpHandler
\* what the punctuation backend does with one request
BackendOutcomes ==
    {[kind |-> "neterr", punc_text |-> ""],
     [kind |-> "badjson", punc_text |-> ""],
     [kind |-> "nofield", punc_text |-> ""]}
    \cup {[kind |-> "ok", punc_text |-> p] : p \in PuncTexts}

\* TextHttpHandler.__init__: self.url
PuncUrl(server_ip, port) ==
    IF server_ip = None \/ port = None THEN None
    ELSE "http://" \o server_ip \o ":" \o port \o "/paddlespeech/text"

\* the guard of TextHttpHandler.run: the restorer is inert
PuncInert(server_ip, port) == server_ip = None \/ port = None

\* the exception raised inside the try block of TextHttpHandler.run
PuncTryExc(o) ==
    CASE o.kind = "neterr" -> "ConnectionError"
      [] o.kind = "badjson" -> "JSONDecodeError"
      [] o.kind = "nofield" -> "KeyError"
      [] OTHER -> "none"

\* a handler that lets the lookup errors through
PuncCatchesOnlyNetwork(e) == e = "ConnectionError"

\* except Exception: every exception of the try block is caught
PuncCatches(e) == e \in {"ConnectionError", "JSONDecodeError", "KeyError"}

\* a restorer that posts even when it has no endpoint
PuncRunAlwaysPosts(server_ip, port, text, o) ==
    LET e == PuncTryExc(o) IN
    [ret |-> IF e = "none" THEN JStr(o.punc_text) ELSE text,
     posts |-> 1,
     exc |-> "none"]

\* TextHttpHandler.run(text) when the backend does o: the value returned,
\* the number of HTTP requests made, the exception that leaves the method
PuncRun(server_ip, port, text, o) ==
    IF PuncInert(server_ip, port)
    THEN [ret |-> text, posts |-> 0, exc |-> "none"]
    ELSE LET e == PuncTryExc(o) IN
         IF e = "none"
         THEN [ret |-> JStr(o.punc_text), posts |-> 1, exc |-> "none"]
         ELSE IF PuncCatches(e)
         THEN [ret |-> text, posts |-> 1, exc |-> "none"]
         ELSE [ret |-> text, posts |-> 1, exc |-> e]

\* ------------------------------------------------------------- read_wave
\* chunk_size = int(85 * sample_rate / 1000)
ChunkSize(sample_rate) == (ChunkMs * sample_rate) \div 1000

\* a padding that always adds chunk_size - (x_len % chunk_size) samples
PaddingLenNoElse(x_len, chunk_size) == chunk_size - (x_len % chunk_size)

\* padding_len_x
PaddingLen(x_len, chunk_size) ==
    IF x_len % chunk_size # 0
    THEN chunk_size - (x_len % chunk_size)
    ELSE 0

Zeros(n) == [i \in 1..n |-> 0]

\* padded_x = np.concatenate([samples, padding])
PaddedX(samples, chunk_size) ==
    samples \o Zeros(PaddingLen(Len(samples), chunk_size))

\* num_chunk = int((x_len + padding_len_x) / chunk_size)
NumChunk(x_len, chunk_size) ==
    (x_len + PaddingLen(x_len, chunk_size)) \div chunk_size

\* x_chunk = padded_x[start:end] for the i-th iteration (i from 0);
\* a numpy slice stops at the end of the array
XChunk(samples, chunk_size, i) ==
    LET px == PaddedX(samples, chunk_size)
        start == i * chunk_size
        end == start + chunk_size
        stop == IF end < Len(px) THEN end ELSE Len(px)
    IN SubSeq(px, start + 1, stop)

\* all frames read_wave yields, in order
ReadWave(samples, chunk_size) ==
    [i \in 1..NumChunk(Len(samples), chunk_size) |->
        XChunk(samples, chunk_size, i - 1)]

RECURSIVE Concat(_)
Concat(ss) == IF ss = <<>> THEN <<>> ELSE Head(ss) \o Concat(Tail(ss))

RECURSIVE SeqsUpTo(_)
SeqsUpTo(n) ==
    IF n = 0 THEN {<<>>}
    ELSE LET prev == SeqsUpTo(n - 1) IN
         prev \cup {Append(s, v) : s \in {q \in prev : Len(q) = n - 1},
                                   v \in SampleVals}

\* the wave files run may be given
SampleBuffers == SeqsUpTo(MaxLen)
ChunkSizes == 1..MaxChunk

\* frames the capture device may deliver to run_online
DeviceFrames == {<<0>>, <<1>>}

\* constructor arguments
Hosts == {None, "127.0.0.1"}
Ports == {None, "8090"}
Endpoints == {None, "/paddlespeech/asr/streaming"}

\* a copy of the start message sent in place of every control message
ControlAlwaysStart(signal) == [kind |-> "start", data |-> <<>>]

\* control messages and audio frames as sent on the connection
Control(signal) == [kind |-> signal, data |-> <<>>]
Audio(frame) == [kind |-> "audio", data |-> frame]

VARIABLES
    url, port, endpoint,             \* ASRWsAudioHandler.__init__ arguments
    punc_server_ip, punc_server_port,\* TextHttpHandler.__init__ arguments
    mode,            \* the method called: "none", "run", "run_online", "punc"
    pc,              \* position of the call
    exc,             \* the exception that left the call ("none" if none)
    ret,             \* the value returned
    wsState,         \* ws: "unopened", "open", "closed"
    connects,        \* connection attempts
    sent,            \* messages sent on ws, in order
    nrecv,           \* responses received on ws
    msg,             \* the local variable msg
    lastWire,        \* the last message received from the server
    answersOk,       \* every response to a frame or to end so far was a
                     \* JSON object with a string "result"
    samples, chunk_size, sample_rate,   \* the wave file given to run
    idx,             \* read_wave: the loop variable i of the generator
    chunk_data,      \* the frame read_wave yielded last
    posts,           \* HTTP requests made by the restorer
    restores,        \* calls of punc_server.run: where, argument, result
    devState,        \* capture device: "unopened", "open", "released"
    captured         \* frames read from the capture device

cfgv == <<url, port, endpoint, punc_server_ip, punc_server_port>>
wavv == <<samples, chunk_size, sample_rate>>
vars == <<url, port, endpoint, punc_server_ip, punc_server_port, mode, pc,
          exc, ret, wsState, connects, sent, nrecv, msg, lastWire, answersOk,
          samples,
          chunk_size, sample_rate, idx, chunk_data, posts, restores,
          devState, captured>>

\* a constructor that does not look at the endpoint path
WsUrlIgnoresEndpoint(u, p, e) ==
    IF u = None \/ p = None THEN None
    ELSE "ws://" \o u \o ":" \o p \o e

\* ASRWsAudioHandler.__init__: self.url
WsUrl(u, p, e) ==
    IF u = None \/ p = None \/ e = None THEN None
    ELSE "ws://" \o u \o ":" \o p \o e

\* a handler whose restorer object counts as false
PuncServerFalsy == FALSE

\* `if self.punc_server`: the handler object is always truthy
PuncServerTruthy == TRUE

Init ==
    /\ url \in Hosts /\ port \in Ports /\ endpoint \in Endpoints
    /\ punc_server_ip \in Hosts /\ punc_server_port \in Ports
    /\ mode = "none" /\ pc = "init" /\ exc = "none" /\ ret = PyUnset
    /\ wsState = "unopened" /\ connects = 0 /\ sent = <<>> /\ nrecv = 0
    /\ msg = PyUnset /\ lastWire = [json |-> "none", result |-> Missing]
    /\ answersOk = TRUE
    /\ samples = <<>> /\ chunk_size = 1 /\ sample_rate = RequiredRate
    /\ idx = 0 /\ chunk_data = <<>>
    /\ posts = 0 /\ restores = <<>>
    /\ devState = "unopened" /\ captured = 0

\* an exit that forgets the connection when an exception passes through
AsyncWithExitLeak(ws, raised) ==
    IF ws = "open" /\ ~raised THEN "closed" ELSE ws

\* leaving `async with websockets.connect(...) as ws`, by return or by an
\* exception: the connection is closed if it was opened
AsyncWithExit(ws, raised) == IF ws = "open" THEN "closed" ELSE ws

\* a session that notes the exception and goes on to the end handshake
RaiseButContinue(e) ==
    /\ pc' = "send_end"
    /\ exc' = e
    /\ wsState' = wsState

\* an exception leaves run / run_online: nothing in them catches it
Raise(e) ==
    /\ pc' = "failed"
    /\ exc' = e
    /\ wsState' = AsyncWithExit(wsState, TRUE)

\* the record of one call of self.punc_server.run
RestoreCall(where, text, o, r) ==
    [at |-> where, sends |-> Len(sent), text |-> text, backend |-> o,
     ret |-> r.ret, posts |-> r.posts]

\* ------------------------------------------------- TextHttpHandler.run
\* the restorer called on its own
CallPuncRun ==
    /\ pc = "init"
    /\ \E s \in Texts, o \in BackendOutcomes :
         LET r == PuncRun(punc_server_ip, punc_server_port, JStr(s), o) IN
         /\ mode' = "punc"
         /\ posts' = posts + r.posts
         /\ restores' = Append(restores, RestoreCall("direct", JStr(s), o, r))
         /\ IF r.exc # "none"
            THEN pc' = "failed" /\ exc' = r.exc /\ ret' = ret
            ELSE pc' = "returned" /\ exc' = exc /\ ret' = PyStr(r.ret)
    /\ UNCHANGED <<cfgv, wavv, wsState, connects, sent, nrecv, msg, lastWire,
                   answersOk,
                   idx, chunk_data, devState, captured>>

\* ------------------------------------------------ ASRWsAudioHandler.run
\* run(wavfile_path) up to the connection attempt
CallRun ==
    /\ pc = "init"
    /\ mode' = "run"
    /\ \E s \in SampleBuffers, c \in ChunkSizes, sr \in SampleRates :
         samples' = s /\ chunk_size' = c /\ sample_rate' = sr
    /\ IF WsUrl(url, port, endpoint) = None
       THEN pc' = "returned" /\ ret' = PyEmptyStr
       ELSE pc' = "connect" /\ ret' = ret
    /\ UNCHANGED <<cfgv, exc, wsState, connects, sent, nrecv, msg, lastWire,
                   answersOk,
                   idx, chunk_data, posts, restores, devState, captured>>

\* websockets.connect(self.url)
Connect ==
    /\ mode = "run" /\ pc = "connect"
    /\ connects' = connects + 1
    /\ \/ /\ wsState' = "open" /\ pc' = "send_start" /\ exc' = exc
       \/ Raise("ConnectionRefusedError")
    /\ UNCHANGED <<cfgv, wavv, mode, ret, sent, nrecv, msg, lastWire,
                   answersOk, idx,
                   chunk_data, posts, restores, devState, captured>>

\* a send of audio that does not wait for the response to the frame
WsSendNoWait(at, m, next) ==
    /\ pc = at
    /\ \/ /\ sent' = Append(sent, m)
          /\ pc' = IF next = "recv_chunk" THEN "next_chunk" ELSE next
          /\ UNCHANGED <<exc, wsState>>
       \/ Raise("ConnectionClosed") /\ sent' = sent

\* await ws.send(m) at position pc = at: the message is sent, or the
\* transport fails
WsSend(at, m, next) ==
    /\ pc = at
    /\ \/ /\ sent' = Append(sent, m) /\ pc' = next
          /\ UNCHANGED <<exc, wsState>>
       \/ Raise("ConnectionClosed") /\ sent' = sent

\* await ws.send(audio_info) with signal start
SendStart ==
    /\ mode = "run"
    /\ WsSend("send_start", Control("start"), "recv_start")
    /\ UNCHANGED <<cfgv, wavv, mode, ret, connects, nrecv, msg, lastWire,
                   answersOk,
                   idx, chunk_data, posts, restores, devState, captured>>

\* msg = await ws.recv(): the acknowledgement, kept unparsed
RecvStart ==
    /\ mode = "run" /\ pc = "recv_start"
    /\ \/ \E w \in WireMsgs :
            /\ nrecv' = nrecv + 1 /\ lastWire' = w /\ msg' = PyText
            /\ answersOk' = answersOk
            /\ pc' = "read_wave"
            /\ UNCHANGED <<exc, wsState>>
       \/ Raise("ConnectionClosed") /\ UNCHANGED <<nrecv, lastWire,
                                                   answersOk, msg>>
    /\ UNCHANGED <<cfgv, wavv, mode, ret, connects, sent, idx, chunk_data,
                   posts, restores, devState, captured>>

\* read_wave up to its loop: read the file, check the rate, pad
ReadWaveStart ==
    /\ mode = "run" /\ pc = "read_wave"
    /\ \/ Raise("LibsndfileError")
       \/ IF sample_rate # RequiredRate
          THEN Raise("AssertionError")
          ELSE pc' = "next_chunk" /\ UNCHANGED <<exc, wsState>>
    /\ idx' = 0
    /\ UNCHANGED <<cfgv, wavv, mode, ret, connects, sent, nrecv, msg,
                   lastWire, answersOk, chunk_data, posts, restores,
                   devState, captured>>

\* a loop that returns the running result when the frames are exhausted,
\* without the end handshake
NextChunkSkipsEnd ==
    /\ mode = "run" /\ pc = "next_chunk"
    /\ IF idx < NumChunk(Len(samples), chunk_size)
       THEN /\ chunk_data' = XChunk(samples, chunk_size, idx)
            /\ idx' = idx + 1
            /\ pc' = "send_chunk"
            /\ UNCHANGED <<ret, wsState>>
       ELSE /\ pc' = "returned" /\ ret' = msg
            /\ wsState' = AsyncWithExit(wsState, FALSE)
            /\ UNCHANGED <<chunk_data, idx>>
    /\ UNCHANGED <<cfgv, wavv, mode, exc, connects, sent,
                   nrecv, msg, lastWire, answersOk, posts, restores,
                   devState, captured>>

\* for chunk_data in self.read_wave(...): the generator yields the next
\* frame or is exhausted
NextChunk ==
    /\ mode = "run" /\ pc = "next_chunk"
    /\ IF idx < NumChunk(Len(samples), chunk_size)
       THEN /\ chunk_data' = XChunk(samples, chunk_size, idx)
            /\ idx' = idx + 1
            /\ pc' = "send_chunk"
       ELSE /\ pc' = "restore_mid"
            /\ UNCHANGED <<chunk_data, idx>>
    /\ UNCHANGED <<cfgv, wavv, mode, exc, ret, wsState, connects, sent,
                   nrecv, msg, lastWire, answersOk, posts, restores,
                   devState, captured>>

\* await ws.send(chunk_data.tobytes())
SendChunk ==
    /\ mode = "run"
    /\ WsSend("send_chunk", Audio(chunk_data), "recv_chunk")
    /\ UNCHANGED <<cfgv, wavv, mode, ret, connects, nrecv, msg, lastWire,
                   answersOk,
                   idx, chunk_data, posts, restores, devState, captured>>

\* a receive that keeps the running result when the final result is empty
WsRecvJsonKeepsRunning(at, next) ==
    /\ pc = at
    /\ \/ \E w \in WireMsgs :
            /\ nrecv' = nrecv + 1 /\ lastWire' = w
            /\ answersOk' = (answersOk /\ IsResult(w))
            /\ IF JsonLoadsExc(w) # "none"
               THEN Raise(JsonLoadsExc(w)) /\ msg' = PyText
               ELSE /\ msg' = IF at = "recv_end" /\ w.result = JStr("")
                               THEN msg ELSE JsonLoads(w)
                    /\ pc' = next
                    /\ UNCHANGED <<exc, wsState>>
       \/ Raise("ConnectionClosed") /\ UNCHANGED <<nrecv, lastWire,
                                                   answersOk, msg>>

\* a receive that gives up with a timeout error when no response arrives
WsRecvJsonTimeout(at, next) ==
    /\ pc = at
    /\ \/ \E w \in WireMsgs :
            /\ nrecv' = nrecv + 1 /\ lastWire' = w
            /\ answersOk' = (answersOk /\ IsResult(w))
            /\ IF JsonLoadsExc(w) # "none"
               THEN Raise(JsonLoadsExc(w)) /\ msg' = PyText
               ELSE /\ msg' = JsonLoads(w) /\ pc' = next
                    /\ UNCHANGED <<exc, wsState>>
       \/ Raise("ConnectionClosed") /\ UNCHANGED <<nrecv, lastWire,
                                                   answersOk, msg>>
       \/ Raise("TimeoutError") /\ UNCHANGED <<nrecv, lastWire,
                                               answersOk, msg>>

\* msg = await ws.recv(); msg = json.loads(msg) at position pc = at
WsRecvJson(at, next) ==
    /\ pc = at
    /\ \/ \E w \in WireMsgs :
            /\ nrecv' = nrecv + 1 /\ lastWire' = w
            /\ answersOk' = (answersOk /\ IsResult(w))
            /\ IF JsonLoadsExc(w) # "none"
               THEN Raise(JsonLoadsExc(w)) /\ msg' = PyText
               ELSE /\ msg' = JsonLoads(w) /\ pc' = next
                    /\ UNCHANGED <<exc, wsState>>
       \/ Raise("ConnectionClosed") /\ UNCHANGED <<nrecv, lastWire,
                                                   answersOk, msg>>

\* the response to an audio frame
RecvChunk ==
    /\ mode = "run"
    /\ WsRecvJson("recv_chunk", "next_chunk")
    /\ UNCHANGED <<cfgv, wavv, mode, ret, connects, sent, idx, chunk_data,
                   posts, restores, devState, captured>>

\* if self.punc_server and len(msg['result']) > 0:
\*     msg["result"] = self.punc_server.run(msg["result"])
\* at position pc = at, recorded as the call `where`
RestoreNonEmpty(at, where, next) ==
    /\ pc = at
    /\ IF PuncServerTruthy /\ SubscriptExc(msg) # "none"
       THEN Raise(SubscriptExc(msg)) /\ UNCHANGED <<msg, posts, restores>>
       ELSE IF PuncServerTruthy /\ LenExc(msg.result) # "none"
       THEN Raise(LenExc(msg.result)) /\ UNCHANGED <<msg, posts, restores>>
       ELSE IF PuncServerTruthy /\ PyLen(msg.result) > 0
       THEN \E o \in BackendOutcomes :
              LET r == PuncRun(punc_server_ip, punc_server_port,
                               msg.result, o) IN
              /\ posts' = posts + r.posts
              /\ restores' = Append(restores,
                                    RestoreCall(where, msg.result, o, r))
              /\ IF r.exc # "none"
                 THEN Raise(r.exc) /\ msg' = msg
                 ELSE /\ msg' = PyDict(r.ret) /\ pc' = next
                      /\ UNCHANGED <<exc, wsState>>
       ELSE /\ pc' = next
            /\ UNCHANGED <<exc, wsState, msg, posts, restores>>

\* the restoration step after the loop
RestoreMid ==
    /\ mode = "run"
    /\ RestoreNonEmpty("restore_mid", "mid", "send_end")
    /\ UNCHANGED <<cfgv, wavv, mode, ret, connects, sent, nrecv, lastWire,
                   answersOk,
                   idx, chunk_data, devState, captured>>

\* await ws.send(audio_info) with signal end
SendEnd ==
    /\ mode = "run"
    /\ WsSend("send_end", Control("end"), "recv_end")
    /\ UNCHANGED <<cfgv, wavv, mode, ret, connects, nrecv, msg, lastWire,
                   answersOk,
                   idx, chunk_data, posts, restores, devState, captured>>

\* msg = await ws.recv(); msg = json.loads(msg)
RecvEnd ==
    /\ mode = "run"
    /\ WsRecvJson("recv_end", "restore_final")
    /\ UNCHANGED <<cfgv, wavv, mode, ret, connects, sent, idx, chunk_data,
                   posts, restores, devState, captured>>

\* if self.punc_server: msg["result"] = self.punc_server.run(msg["result"]);
\* the statistics line; return result
RestoreFinal ==
    /\ mode = "run" /\ pc = "restore_final"
    /\ IF PuncServerTruthy /\ SubscriptExc(msg) # "none"
       THEN /\ Raise(SubscriptExc(msg))
            /\ UNCHANGED <<msg, posts, restores, ret>>
       ELSE \E o \in BackendOutcomes :
              LET r == IF PuncServerTruthy
                       THEN PuncRun(punc_server_ip, punc_server_port,
                                    msg.result, o)
                       ELSE [ret |-> msg.result, posts |-> 0,
                             exc |-> "none"]
              IN
              /\ posts' = posts + r.posts
              /\ restores' = Append(restores,
                                    RestoreCall("final", msg.result, o, r))
              /\ IF r.exc # "none"
                 THEN Raise(r.exc) /\ UNCHANGED <<msg, ret>>
                 ELSE IF Len(samples) = 0
                 THEN \* elapsed_time / audio_info.duration
                      /\ Raise("ZeroDivisionError")
                      /\ msg' = PyDict(r.ret) /\ ret' = ret
                 ELSE /\ msg' = PyDict(r.ret)
                      /\ ret' = PyDict(r.ret)
                      /\ pc' = "returned"
                      /\ exc' = exc
                      /\ wsState' = AsyncWithExit(wsState, FALSE)
    /\ UNCHANGED <<cfgv, wavv, mode, connects, sent, nrecv, lastWire,
                   answersOk, idx,
                   chunk_data, devState, captured>>

RunNext ==
    \/ CallRun \/ Connect \/ SendStart \/ RecvStart \/ ReadWaveStart
    \/ NextChunk \/ SendChunk \/ RecvChunk \/ RestoreMid \/ SendEnd
    \/ RecvEnd \/ RestoreFinal

\* ----------------------------------------- ASRWsAudioHandler.run_online
\* run_online() up to the connection attempt
CallRunOnline ==
    /\ pc = "init"
    /\ mode' = "run_online"
    /\ IF WsUrl(url, port, endpoint) = None
       THEN pc' = "returned" /\ ret' = PyEmptyStr
       ELSE pc' = "connect" /\ ret' = ret
    /\ UNCHANGED <<cfgv, wavv, exc, wsState, connects, sent, nrecv, msg,
                   lastWire, answersOk, idx, chunk_data, posts, restores,
                   devState,
                   captured>>

\* websockets.connect(self.url)
OnlineConnect ==
    /\ mode = "run_online" /\ pc = "connect"
    /\ connects' = connects + 1
    /\ \/ /\ wsState' = "open" /\ pc' = "send_start" /\ exc' = exc
       \/ Raise("ConnectionRefusedError")
    /\ UNCHANGED <<cfgv, wavv, mode, ret, sent, nrecv, msg, lastWire,
                   answersOk, idx,
                   chunk_data, posts, restores, devState, captured>>

\* await ws.send(audio_info) with signal start
OnlineSendStart ==
    /\ mode = "run_online"
    /\ WsSend("send_start", Control("start"), "recv_start")
    /\ UNCHANGED <<cfgv, wavv, mode, ret, connects, nrecv, msg, lastWire,
                   answersOk,
                   idx, chunk_data, posts, restores, devState, captured>>

\* msg = await ws.recv(): the acknowledgement
OnlineRecvStart ==
    /\ mode = "run_online" /\ pc = "recv_start"
    /\ \/ \E w \in WireMsgs :
            /\ nrecv' = nrecv + 1 /\ lastWire' = w /\ msg' = PyText
            /\ answersOk' = answersOk
            /\ pc' = "open_device"
            /\ UNCHANGED <<exc, wsState>>
       \/ Raise("ConnectionClosed") /\ UNCHANGED <<nrecv, lastWire,
                                                   answersOk, msg>>
    /\ UNCHANGED <<cfgv, wavv, mode, ret, connects, sent, idx, chunk_data,
                   posts, restores, devState, captured>>

\* an exception leaves run_online: stream.stop_stream(), stream.close() and
\* audio.terminate() are not on this path, the device stays as it is
OnlineRaise(e) ==
    /\ Raise(e)
    /\ devState' = devState

\* audio = pyaudio.PyAudio(); stream = audio.open(...)
OpenDevice ==
    /\ mode = "run_online" /\ pc = "open_device"
    /\ \/ /\ devState' = "open" /\ pc' = "read_device"
          /\ UNCHANGED <<exc, wsState>>
       \/ OnlineRaise("OSError")
    /\ UNCHANGED <<cfgv, wavv, mode, ret, connects, sent, nrecv, msg,
                   lastWire, answersOk, idx, chunk_data, posts, restores,
                   captured>>

\* a capture loop that ends when the device has no more data, releasing the
\* device and returning the last result
ReadDeviceUntilEnd ==
    /\ mode = "run_online" /\ pc = "read_device"
    /\ captured < MaxOnline
    /\ \/ \E f \in DeviceFrames :
            /\ chunk_data' = f /\ captured' = captured + 1
            /\ pc' = "send_chunk"
            /\ UNCHANGED <<exc, wsState, devState, ret>>
       \/ /\ pc' = "returned" /\ ret' = msg /\ devState' = "released"
          /\ wsState' = AsyncWithExit(wsState, FALSE)
          /\ UNCHANGED <<exc, chunk_data, captured>>
    /\ UNCHANGED <<cfgv, wavv, mode, connects, sent, nrecv, msg,
                   lastWire, answersOk, idx, posts, restores>>

\* while True: wav_data = stream.read(int(rate * record_seconds))
ReadDevice ==
    /\ mode = "run_online" /\ pc = "read_device"
    /\ captured < MaxOnline
    /\ \/ \E f \in DeviceFrames :
            /\ chunk_data' = f /\ captured' = captured + 1
            /\ pc' = "send_chunk"
            /\ UNCHANGED <<exc, wsState, devState>>
       \/ OnlineRaise("OSError") /\ UNCHANGED <<chunk_data, captured>>
    /\ UNCHANGED <<cfgv, wavv, mode, ret, connects, sent, nrecv, msg,
                   lastWire, answersOk, idx, posts, restores>>

\* await ws.send(wav_data)
OnlineSendChunk ==
    /\ mode = "run_online" /\ pc = "send_chunk"
    /\ \/ /\ sent' = Append(sent, Audio(chunk_data)) /\ pc' = "recv_chunk"
          /\ UNCHANGED <<exc, wsState, devState>>
       \/ OnlineRaise("ConnectionClosed") /\ sent' = sent
    /\ UNCHANGED <<cfgv, wavv, mode, ret, connects, nrecv, msg, lastWire,
                   answersOk,
                   idx, chunk_data, posts, restores, captured>>

\* msg = await ws.recv(); msg = json.loads(msg)
OnlineRecvChunk ==
    /\ mode = "run_online" /\ pc = "recv_chunk"
    /\ \/ \E w \in WireMsgs :
            /\ nrecv' = nrecv + 1 /\ lastWire' = w
            /\ answersOk' = (answersOk /\ IsResult(w))
            /\ IF JsonLoadsExc(w) # "none"
               THEN OnlineRaise(JsonLoadsExc(w)) /\ msg' = PyText
               ELSE /\ msg' = JsonLoads(w) /\ pc' = "restore_online"
                    /\ UNCHANGED <<exc, wsState, devState>>
       \/ OnlineRaise("ConnectionClosed") /\ UNCHANGED <<nrecv, lastWire,
                                                         answersOk, msg>>
    /\ UNCHANGED <<cfgv, wavv, mode, ret, connects, sent, idx, chunk_data,
                   posts, restores, captured>>

\* the restoration step of the loop body, then print and loop
OnlineRestore ==
    /\ mode = "run_online" /\ pc = "restore_online"
    /\ IF PuncServerTruthy /\ SubscriptExc(msg) # "none"
       THEN OnlineRaise(SubscriptExc(msg)) /\ UNCHANGED <<msg, posts,
                                                          restores>>
       ELSE IF PuncServerTruthy /\ LenExc(msg.result) # "none"
       THEN OnlineRaise(LenExc(msg.result))
            /\ UNCHANGED <<msg, posts, restores>>
       ELSE IF PuncServerTruthy /\ PyLen(msg.result) > 0
       THEN \E o \in BackendOutcomes :
              LET r == PuncRun(punc_server_ip, punc_server_port,
                               msg.result, o) IN
              /\ posts' = posts + r.posts
              /\ restores' = Append(restores,
                                    RestoreCall("online", msg.result, o, r))
              /\ IF r.exc # "none"
                 THEN OnlineRaise(r.exc) /\ msg' = msg
                 ELSE /\ msg' = PyDict(r.ret) /\ pc' = "read_device"
                      /\ UNCHANGED <<exc, wsState, devState>>
       ELSE /\ pc' = "read_device"
            /\ UNCHANGED <<exc, wsState, devState, msg, posts, restores>>
    /\ UNCHANGED <<cfgv, wavv, mode, ret, connects, sent, nrecv, lastWire,
                   answersOk,
                   idx, chunk_data, captured>>

OnlineNext ==
    \/ CallRunOnline \/ OnlineConnect \/ OnlineSendStart \/ OnlineRecvStart
    \/ OpenDevice \/ ReadDevice \/ OnlineSendChunk \/ OnlineRecvChunk
    \/ OnlineRestore

Next == CallPuncRun \/ RunNext \/ OnlineNext

Spec == Init /\ [][Next]_vars

TypeOK ==
    /\ mode \in {"none", "run", "run_online", "punc"}
    /\ pc \in {"init", "connect", "send_start", "recv_start", "read_wave",
               "next_chunk", "send_chunk", "recv_chunk", "restore_mid",
               "send_end", "recv_end", "restore_final", "open_device",
               "read_device", "restore_online", "returned", "failed"}
    /\ wsState \in {"unopened", "open", "closed"}
    /\ devState \in {"unopened", "open", "released"}
    /\ (pc = "failed") = (exc # "none")

\* ================================================================ claims
Terminated == pc \in {"returned", "failed"}
EndpointMissing == url = None \/ port = None \/ endpoint = None
RestorerUnconfigured == punc_server_ip = None \/ punc_server_port = None
Kinds == [i \in 1..Len(sent) |-> sent[i].kind]
\* the audio frames sent so far, in order
FramesSent ==
    LET ix == {i \in 1..Len(sent) : sent[i].kind = "audio"} IN
    [j \in 1..Cardinality(ix) |-> sent[j + 1].data]
CeilDiv(n, c) == (n + c - 1) \div c
TransportErrors == {"ConnectionRefusedError", "ConnectionClosed"}
\* failures of the environment of run: transport and wave file
EnvFailures ==
    TransportErrors \cup {"LibsndfileError", "AssertionError", "OSError"}

\* C1: in a file-driven session at most one sent message awaits its
\* response at any time: every message but possibly the last one sent has
\* been answered, so no frame and no `end` is sent before the response to
\* the previous message was received.
C1_OneInFlight ==
    mode = "run" => /\ Len(sent) - nrecv \in {0, 1}
                    /\ pc \in {"send_start", "send_chunk", "send_end"}
                         => nrecv = Len(sent)

\* C1 witness: start and two frames were answered, `end` awaits its response
C1_Witness ==
    /\ mode = "run" /\ pc = "recv_end"
    /\ Len(sent) = 4 /\ nrecv = 3 /\ sent[4].kind = "end"

\* C2: in a file-driven session the first message sent, and only the first,
\* is `start`; `end` is only ever the last message sent (no audio after
\* it); and a session that ran to completion sent exactly one `start`,
\* then only audio frames, then exactly one `end`.
C2_StartEndBracket ==
    mode = "run" =>
      /\ \A i \in 1..Len(sent) :
           /\ (sent[i].kind = "start") <=> (i = 1)
           /\ (sent[i].kind = "end") => (i = Len(sent))
      /\ (pc = "returned" /\ wsState = "closed") =>
           /\ Len(sent) >= 2
           /\ sent[1].kind = "start"
           /\ sent[Len(sent)].kind = "end"
           /\ \A i \in 2..(Len(sent) - 1) : sent[i].kind = "audio"

\* C2 witness: a completed session with two audio frames
C2_Witness ==
    /\ mode = "run" /\ pc = "returned" /\ wsState = "closed"
    /\ Kinds = <<"start", "audio", "audio", "end">>

\* C3 (as claimed): with a readable wave file of k frames and a server that
\* answers every frame and `end` with a JSON object carrying a string
\* result, the run ends by returning, after 1 start, k frames and 1 end,
\* k+2 sends and k+2 receives, and returns the `end` response with result
\* replaced by the restorer's output (unchanged without a restorer).
C3_Original ==
    (mode = "run" /\ ~EndpointMissing /\ Terminated
       /\ answersOk /\ exc \notin EnvFailures) =>
      LET k == NumChunk(Len(samples), chunk_size) IN
      /\ pc = "returned"
      /\ Len(sent) = k + 2 /\ nrecv = k + 2
      /\ Kinds = [i \in 1..(k + 2) |->
                    IF i = 1 THEN "start"
                    ELSE IF i = k + 2 THEN "end" ELSE "audio"]
      /\ ret.ty = "dict"
      /\ restores # <<>>
      /\ LET c == restores[Len(restores)] IN
         /\ c.at = "final" /\ c.text = lastWire.result
         /\ ret.result = IF RestorerUnconfigured THEN lastWire.result
                         ELSE c.ret

\* C4: with host, port or path missing, run and run_online return the empty
\* string at once: no connection attempt, no message, no restorer request,
\* no capture device, no exception.
C4_NoEndpoint ==
    (EndpointMissing /\ mode \in {"run", "run_online"}) =>
      /\ pc = "returned" /\ ret = PyEmptyStr /\ exc = "none"
      /\ connects = 0 /\ wsState = "unopened" /\ sent = <<>> /\ nrecv = 0
      /\ posts = 0 /\ devState = "unopened"

\* C4 witness: run_online returned with only the path missing
C4_Witness ==
    /\ mode = "run_online" /\ pc = "returned"
    /\ url # None /\ port # None /\ endpoint = None

\* C5: a configured restorer returns result.punc_text when the backend
\* answers with it and its argument when the request fails, the response is
\* not JSON or the field is missing; called on its own it never fails.
C5_RestorerBestEffort ==
    /\ mode = "punc" => (pc # "failed" /\ exc = "none")
    /\ ~RestorerUnconfigured =>
         \A i \in 1..Len(restores) :
           LET c == restores[i] IN
           /\ c.backend.kind = "ok" => c.ret = JStr(c.backend.punc_text)
           /\ c.backend.kind # "ok" => c.ret = c.text
    /\ (mode = "punc" /\ pc = "returned") =>
         ret = PyStr(restores[1].ret)

\* C5 witness: the backend's answer lacked the field and the text came back
C5_Witness ==
    /\ mode = "punc" /\ pc = "returned" /\ ~RestorerUnconfigured
    /\ restores[1].backend.kind = "nofield"
    /\ ret = PyStr(JStr("hello world"))

\* C6: with host or port absent the restorer returns its argument and makes
\* no HTTP request, called on its own or from a session; a session then
\* keeps the server's result fields as received.
C6_InertRestorer ==
    RestorerUnconfigured =>
      /\ posts = 0
      /\ \A i \in 1..Len(restores) :
           restores[i].ret = restores[i].text /\ restores[i].posts = 0
      /\ (mode = "run" /\ pc = "send_end") => msg = JsonLoads(lastWire)
      /\ (mode = "run" /\ pc = "returned" /\ wsState = "closed") =>
           ret = JsonLoads(lastWire)

\* C6 witness: a completed session whose mid-stream and final restoration
\* both ran with an inert restorer, the final one on the empty string
C6_Witness ==
    /\ RestorerUnconfigured /\ mode = "run" /\ pc = "returned"
    /\ Len(restores) = 2
    /\ restores[1].at = "mid" /\ restores[2].at = "final"
    /\ restores[2].text = JStr("")

\* C7: read_wave yields ceil(N/C) frames of length C whose concatenation is
\* the N samples followed by C*ceil(N/C) - N = (C - N mod C) mod C zeros;
\* the frames the session sends are these, in order; at 16000 Hz the chunk
\* is 1360 samples and 16000 samples give 12 frames with 320 zeros.
C7_ReadWave ==
    /\ mode = "run" =>
         LET n == Len(samples)
             c == chunk_size
             fr == ReadWave(samples, chunk_size)
             pad == c * CeilDiv(n, c) - n
         IN /\ Len(fr) = CeilDiv(n, c)
            /\ \A i \in 1..Len(fr) : Len(fr[i]) = c
            /\ Concat(fr) = samples \o Zeros(pad)
            /\ pad = (c - (n % c)) % c
            /\ Len(FramesSent) <= Len(fr)
            /\ FramesSent = SubSeq(fr, 1, Len(FramesSent))
            /\ pc = "restore_mid" => FramesSent = fr
    /\ ChunkSize(RequiredRate) = 1360
    /\ NumChunk(16000, ChunkSize(RequiredRate)) = 12
    /\ PaddingLen(16000, ChunkSize(RequiredRate)) = 320

\* C7 witness: three samples in chunks of two, both frames sent
C7_Witness ==
    /\ mode = "run" /\ pc = "restore_mid"
    /\ Len(samples) = 3 /\ chunk_size = 2
    /\ FramesSent = <<SubSeq(samples, 1, 2), <<samples[3], 0>>>>

\* C8: a transport failure in a file-driven session leaves run as an
\* exception: the session is failed, no value is returned, and from then on
\* nothing is sent, no restoration is made and nothing is returned.
C8_TransportFailureAborts ==
    /\ [](mode = "run" /\ exc \in TransportErrors
            => pc = "failed" /\ ret = PyUnset)
    /\ [][(mode = "run" /\ pc = "failed") =>
            /\ pc' = "failed" /\ sent' = sent /\ nrecv' = nrecv
            /\ posts' = posts /\ restores' = restores /\ ret' = ret]_vars

\* C8 witness: the connection broke after a frame's result had been parsed
C8_Witness ==
    /\ mode = "run" /\ pc = "failed" /\ exc = "ConnectionClosed"
    /\ msg.ty = "dict" /\ msg.result = JStr("hello world")
    /\ ret = PyUnset /\ Len(sent) >= 3

\* C9: when run or run_online has ended, by return or by exception, the
\* connection is not open: it was never opened or it has been closed.
C9_ConnectionClosed ==
    (mode \in {"run", "run_online"} /\ Terminated) =>
      /\ wsState # "open"
      /\ Len(sent) > 0 => wsState = "closed"

\* C9 witness: the live session failed on a device read, connection closed
C9_Witness ==
    /\ mode = "run_online" /\ pc = "failed" /\ exc = "OSError"
    /\ devState = "open" /\ captured >= 1 /\ wsState = "closed"

\* C10 (as claimed): when run_online has ended, the capture device, if it
\* was opened, has been stopped and released.
C10_Original ==
    (mode = "run_online" /\ Terminated) => devState # "open"

\* C11: in run and in run_online, once a response to an audio frame or to
\* `end` was not parseable as JSON, the call has failed with the parser's
\* exception: nothing was returned, and no message was sent and no
\* restoration made after that response.
C11_UnparseableAborts ==
    /\ [](mode \in {"run", "run_online"} /\ nrecv >= 2
            /\ lastWire.json = "invalid"
          => /\ pc = "failed" /\ exc = "JSONDecodeError" /\ ret = PyUnset
             /\ Len(sent) = nrecv
             /\ \A i \in 1..Len(restores) : restores[i].sends < nrecv)
    /\ [][(pc = "failed" /\ exc = "JSONDecodeError") =>
            /\ pc' = "failed" /\ sent' = sent /\ posts' = posts
            /\ restores' = restores /\ ret' = ret]_vars

\* C11 witness: the response to `end` was not JSON
C11_Witness ==
    /\ mode = "run" /\ pc = "failed" /\ exc = "JSONDecodeError"
    /\ lastWire.json = "invalid"
    /\ Len(sent) >= 3 /\ sent[Len(sent)].kind = "end" /\ nrecv = Len(sent)

\* the positions of the capture loop of run_online, and the position that
\* follows each when no exception is raised
OnlineLoopPcs == {"read_device", "send_chunk", "recv_chunk", "restore_online"}
OnlineLoopSucc(p) ==
    CASE p = "read_device" -> "send_chunk"
      [] p = "send_chunk" -> "recv_chunk"
      [] p = "recv_chunk" -> "restore_online"
      [] OTHER -> "read_device"

SessionState ==
    CASE pc = "failed" -> "Failed"
      [] pc = "returned" ->
           IF wsState = "unopened" THEN "NotStarted" ELSE "Closed"
      [] pc \in {"init", "connect"} -> "Idle"
      [] pc \in {"send_start", "recv_start"} -> "Connected"
      [] pc \in {"read_wave", "next_chunk", "send_chunk", "recv_chunk",
                 "restore_mid"} -> "Streaming"
      [] OTHER -> "Finishing"
SessionRank(s) ==
    CASE s = "Idle" -> 0
      [] s = "Connected" -> 1
      [] s = "Streaming" -> 2
      [] s = "Finishing" -> 3
      [] OTHER -> 4
SessionOrdered == {"Idle", "Connected", "Streaming", "Finishing", "Closed"}
\* the positions where run is suspended on the connection
AwaitPcs == {"connect", "send_start", "recv_start", "send_chunk",
             "recv_chunk", "send_end", "recv_end"}

\* C13: a step of run keeps the session state or moves it to the next of
\* Idle, Connected, Streaming, Finishing, Closed, or to Failed; Failed,
\* Closed and the not-started return are left by no step; wherever run is
\* suspended on the connection a connection error can take it to Failed;
\* in Closed the last message sent is `end` and its response was received.
C13_StateOrder ==
    /\ [][mode' = "run" =>
            /\ (SessionState \in SessionOrdered
                  /\ SessionState' \in SessionOrdered)
                 => SessionRank(SessionState') - SessionRank(SessionState)
                      \in {0, 1}
            /\ SessionState' = "NotStarted"
                 => SessionState \in {"Idle", "NotStarted"}
            /\ SessionState \in {"Failed", "Closed", "NotStarted"}
                 => SessionState' = SessionState]_vars
    /\ [](mode = "run" /\ pc \in AwaitPcs =>
            ENABLED (RunNext /\ pc' = "failed" /\ exc' \in TransportErrors))
    /\ [](mode = "run" /\ SessionState = "Closed" =>
            /\ sent # <<>> /\ sent[Len(sent)].kind = "end"
            /\ nrecv = Len(sent)
            /\ msg.ty = "dict" /\ ret = msg)

\* C13 witness: Closed, reached through all five states with two frames
C13_Witness ==
    /\ mode = "run" /\ SessionState = "Closed"
    /\ idx = 2 /\ nrecv = 4 /\ posts = 0

\* C14: in run no restorer call is made before the frame loop has ended; a
\* mid-stream call is the first call and is made with start and all frames
\* sent and `end` not yet sent; right after that step an HTTP request was
\* made by it iff the restorer is configured and the last frame's result is
\* a non-empty string; a final call is the last call, made after `end`, and
\* posts iff the restorer is configured; a run makes at most two requests.
C14_RestorePoints ==
    mode = "run" =>
      LET k == NumChunk(Len(samples), chunk_size) IN
      /\ pc \in {"connect", "send_start", "recv_start", "read_wave",
                 "next_chunk", "send_chunk", "recv_chunk", "restore_mid"}
           => (restores = <<>> /\ posts = 0)
      /\ \A i \in 1..Len(restores) :
           /\ restores[i].at \in {"mid", "final"}
           /\ restores[i].at = "mid" =>
                /\ i = 1 /\ k >= 1
                /\ restores[i].sends = k + 1
                /\ sent[k + 1].kind = "audio"
                /\ Len(restores[i].text.v) > 0
           /\ restores[i].at = "final" =>
                /\ i = Len(restores)
                /\ restores[i].sends = k + 2
                /\ sent[k + 2].kind = "end"
                /\ restores[i].posts = IF RestorerUnconfigured THEN 0 ELSE 1
      /\ pc = "send_end" =>
           ((restores # <<>> /\ restores[1].posts = 1)
              <=> (/\ ~RestorerUnconfigured
                   /\ lastWire.result.t = "str"
                   /\ Len(lastWire.result.v) > 0))
      /\ (pc = "returned" /\ wsState = "closed") =>
           (restores # <<>> /\ restores[Len(restores)].at = "final")
      /\ Len(restores) <= 2 /\ posts <= 2

\* C14 witness: a completed run that made both requests
C14_Witness ==
    /\ mode = "run" /\ pc = "returned" /\ posts = 2
    /\ Len(restores) = 2
    /\ restores[1].at = "mid" /\ restores[2].at = "final"

\* C15: while run waits for a response (to start, to a frame or to end) the
\* only steps are the arrival of a response and the failure of the
\* connection: without them nothing changes, so nothing is sent, restored,
\* returned or raised; there is no step for a timeout.
C15_NoTimeout ==
    [][(mode = "run" /\ pc \in {"recv_start", "recv_chunk", "recv_end"}) =>
         \/ /\ nrecv' = nrecv + 1
            /\ sent' = sent /\ posts' = posts /\ ret' = ret
         \/ /\ pc' = "failed" /\ exc' = "ConnectionClosed"
            /\ nrecv' = nrecv /\ sent' = sent /\ posts' = posts
            /\ ret' = ret]_vars

\* C15 witness: run waits for the response to the second frame
C15_Witness ==
    /\ mode = "run" /\ pc = "recv_chunk"
    /\ Len(sent) = 3 /\ nrecv = 2 /\ sent[3].kind = "audio"

\* the file-driven run under the scheduling the claim assumes: a step of run
\* that can be taken is eventually taken (the event loop resumes the
\* coroutine, the server answers, the restorer returns)
LiveSpec == Init /\ [][Next]_vars /\ WF_vars(RunNext)

\* C16: a run on a wave file with at least one frame that has reached the
\* connection attempt eventually returns, unless the connection or the file
\* fails or some response to a frame or to `end` is not a JSON object with
\* a string result.
C16_Terminates ==
    (mode = "run" /\ pc = "connect" /\ Len(samples) >= 1)
      ~> (\/ pc = "returned" /\ wsState = "closed" /\ ret.ty = "dict"
          \/ ~answersOk
          \/ exc \in EnvFailures)

\* C16 witness: a run of three frames returned with every answer in order
C16_Witness ==
    /\ mode = "run" /\ pc = "returned" /\ answersOk /\ exc = "none"
    /\ Len(samples) = 3 /\ idx = 3 /\ nrecv = 5 /\ ret.ty = "dict"

\* C17: with an endpoint and an empty sample buffer, run sends nothing but
\* `start`, makes no restoration and returns nothing; the frame loop is
\* skipped and the step after it fails with TypeError on the unparsed
\* acknowledgement, so a run that the connection and the file did not fail
\* ends failed with TypeError after exactly one response.
C17_EmptyBufferFails ==
    /\ [](mode = "run" /\ ~EndpointMissing /\ Len(samples) = 0 =>
            /\ pc \in {"connect", "send_start", "recv_start", "read_wave",
                       "next_chunk", "restore_mid", "failed"}
            /\ \A i \in 1..Len(sent) : sent[i].kind = "start"
            /\ Len(sent) <= 1
            /\ ret = PyUnset /\ posts = 0 /\ restores = <<>>
            /\ (pc = "failed" /\ exc \notin EnvFailures) =>
                 (exc = "TypeError" /\ nrecv = 1 /\ msg.ty = "text"))
    /\ [][(mode = "run" /\ Len(samples) = 0) =>
            /\ pc = "next_chunk" => pc' = "restore_mid"
            /\ pc = "restore_mid" => (pc' = "failed" /\ exc' = "TypeError")
         ]_vars

\* C17 witness: the run of an empty file failed after the acknowledgement
C17_Witness ==
    /\ mode = "run" /\ samples = <<>> /\ pc = "failed" /\ exc = "TypeError"
    /\ nrecv = 1 /\ answersOk /\ Kinds = <<"start">>

\* the value run returns as a function of the response to `end` and of the
\* backend's answer to the final restoration request
FinalValue(w, o) ==
    PyDict(IF ~RestorerUnconfigured /\ o.kind = "ok"
           THEN JStr(o.punc_text)
           ELSE w.result)

\* C18: the value a completed run returns is determined by the response to
\* `end` and the backend's answer to the final restoration call alone: it is
\* the same function of these two whatever the frames' responses and the
\* mid-stream restoration were, so two runs that agree on them return the
\* same value.
C18_FinalDeterminesReturn ==
    (mode = "run" /\ pc = "returned" /\ wsState = "closed") =>
      /\ restores # <<>>
      /\ restores[Len(restores)].at = "final"
      /\ restores[Len(restores)].text = lastWire.result
      /\ ret = FinalValue(lastWire, restores[Len(restores)].backend)

\* C18 witness: the mid-stream call returned punctuated text, the final
\* result was empty, and the empty result is what run returned
C18_Witness ==
    /\ mode = "run" /\ pc = "returned" /\ Len(restores) = 2
    /\ restores[1].at = "mid" /\ restores[1].ret = JStr("Hello, world.")
    /\ lastWire.result = JStr("") /\ ret = PyDict(JStr(""))

\* a parseable response without a "result" member
LacksResult(w) ==
    \/ w.json = "scalar"
    \/ w.json = "object" /\ w.result = Missing

\* C19: in run a parseable response is accepted when received, whatever it
\* carries; while frames remain the loop goes on to send the next one; when
\* the response to the last frame, or to `end`, lacks "result", the step
\* that follows fails with KeyError or TypeError without any restorer call,
\* configured or not; and a run fails with KeyError only there.
C19_MissingResult ==
    /\ [][mode = "run" =>
            LET k == NumChunk(Len(samples), chunk_size) IN
            /\ (pc \in {"recv_chunk", "recv_end"} /\ nrecv' = nrecv + 1
                  /\ lastWire'.json # "invalid") => pc' # "failed"
            /\ (pc = "next_chunk" /\ idx < k)
                 => (pc' = "send_chunk" /\ exc' = "none")
            /\ (pc \in {"restore_mid", "restore_final"} /\ k >= 1
                  /\ LacksResult(lastWire))
                 => /\ pc' = "failed" /\ exc' \in {"KeyError", "TypeError"}
                    /\ posts' = posts /\ restores' = restores
                    /\ ret' = PyUnset]_vars
    /\ [](mode = "run" /\ pc = "failed" /\ exc = "KeyError" =>
            LET k == NumChunk(Len(samples), chunk_size) IN
            /\ LacksResult(lastWire)
            /\ nrecv = Len(sent) /\ Len(sent) \in {k + 1, k + 2}
            /\ idx = k)

\* C19 witness: the first frame's response had no result and the second
\* frame is about to be sent, with a configured restorer
C19_Witness ==
    /\ mode = "run" /\ pc = "send_chunk" /\ idx = 2 /\ nrecv = 2
    /\ lastWire.json = "object" /\ lastWire.result = Missing
    /\ ~RestorerUnconfigured

====
